---- MODULE Spec2Model ----
(***************************************************************************)
(* A model of the batch scripts of the repository:                         *)
(*                                                                         *)
(*   data_processing_script.py  the column-sum aggregator followed by the  *)
(*                              row-sum / concatenation job;               *)
(*   test.py                    the column renamer followed by the column  *)
(*                              replacer (the live code), and the          *)
(*                              column-range copier followed by the column *)
(*                              reconciliation (the block kept in the      *)
(*                              string literal of lines 3-91).             *)
(*                                                                         *)
(* Every loop iteration of a script is one action.  An uncaught exception  *)
(* ends the script at its position pc and is recorded in err.              *)
(***************************************************************************)
EXTENDS Integers, Sequences, FiniteSets, TLC

VARIABLES
    pc,            \* position of the running script
    idx,           \* index of the next entry of the enumeration being looped over
    console,       \* the lines printed so far, in order
    err,           \* the uncaught exception that ended the script, "" when none
    \* ---- data_processing_script.py
    excel_listing, \* os.listdir('Load_data_XL'): file entries in enumeration order
    excel_files,   \* the filtered list of line 15
    output_dir,    \* 'Load_data': output path -> rows of the CSV at that path
    writes,        \* every to_csv call of the aggregator: source file, path, rows
    folder_listing,\* os.listdir(folder_path) of the concatenation job
    results,       \* the list `results` of the concatenation job
    output_csv,    \* 'output.csv': <<>> when not written, else <<table>>
    \* ---- test.py
    source_file,   \* 'Generators_variability.csv'
    gv_listing,    \* os.listdir('Generators_variability'), enumeration order
    gv,            \* 'Generators_variability': file name -> CSV text
    tf_listing,    \* os.listdir('Generators_variability/test_folder')
    tf,            \* 'Generators_variability/test_folder': file name -> CSV text
    run,           \* how many times the script has been started
    gv_start,      \* gv when the current run started
    tf_start,      \* tf when the current run started
    gv_renamed     \* gv when a renamer loop last ended, before that the first gv

vars == <<pc, idx, console, err, excel_listing, excel_files, output_dir, writes,
          folder_listing, results, output_csv, source_file, gv_listing, gv,
          tf_listing, tf, run, gv_start, tf_start, gv_renamed>>

aggVars == <<excel_listing, excel_files, output_dir, writes, folder_listing,
             results, output_csv>>

csvVars == <<source_file, gv_listing, gv, tf_listing, tf, run, gv_start,
             tf_start, gv_renamed>>

(***************************************************************************)
(* Bounds of the model.                                                    *)
(***************************************************************************)
MaxExcelFiles == 2
MaxSheets == 2
MaxRows == 2
MaxRuns == 2

(***************************************************************************)
(* Generic helpers.                                                        *)
(***************************************************************************)
Range(s) == {s[i] : i \in 1..Len(s)}

RECURSIVE SeqsUpTo(_, _)
\* every sequence over S of length at most n
SeqsUpTo(S, n) ==
    IF n = 0 THEN {<< >>}
    ELSE LET shorter == SeqsUpTo(S, n - 1)
         IN  shorter \cup {Append(s, x) : s \in {t \in shorter : Len(t) = n - 1}, x \in S}

Distinct(s) == \A i, j \in 1..Len(s) : i # j => s[i] # s[j]

RECURSIVE Flatten(_)
Flatten(ss) == IF ss = << >> THEN << >> ELSE Head(ss) \o Flatten(Tail(ss))

Min(a, b) == IF a < b THEN a ELSE b

(***************************************************************************)
(* A DataFrame: ordered column labels and, per column, its values by row.  *)
(***************************************************************************)
DataFrame(cols, data) == [cols |-> cols, data |-> data]

NRows(df) == IF Len(df.data) = 0 THEN 0 ELSE Len(df.data[1])

\* `col in df`
HasColumn(df, col) == \E i \in 1..Len(df.cols) : df.cols[i] = col

\* position of the first column labelled col
ColumnIndex(df, col) ==
    CHOOSE i \in 1..Len(df.cols) :
        df.cols[i] = col /\ \A j \in 1..(i - 1) : df.cols[j] # col

\* df[col]
Column(df, col) == df.data[ColumnIndex(df, col)]

(***************************************************************************)
(* data_processing_script.py: cells of a spreadsheet are numbers or blank. *)
(***************************************************************************)
Num(n) == [nan |-> FALSE, v |-> n]
Blank == [nan |-> TRUE, v |-> 0]

RECURSIVE SeriesSum(_)
\* Series.sum(): blank cells are skipped, the sum of no cells is 0
SeriesSum(s) ==
    IF s = << >> THEN 0
    ELSE (IF Head(s).nan THEN 0 ELSE Head(s).v) + SeriesSum(Tail(s))

columns_to_sum == <<"FAR_WEST", "NORTH", "WEST">>

excel_files_directory == "Load_data_XL"

output_directory == "Load_data"

\* file_name.endswith(suffixes), on an entry split at its last dot
EndsWith(f, suffixes) == f.ext \in suffixes

FileName(f) == f.stem \o f.ext

\* os.path.splitext(excel_file)[0]
SplitExtRoot(f) == f.stem

\* os.path.join(output_directory, os.path.splitext(excel_file)[0] + '_sum.csv')
OutputCsvPath(f) == output_directory \o "/" \o SplitExtRoot(f) \o "_sum.csv"

(***************************************************************************)
(* The column-sum aggregator (lines 15-49).                                *)
(***************************************************************************)
\* line 33: all(col in sheet_df for col in columns_to_sum)
HasRequiredColumns(sheet_df) ==
    \A i \in 1..Len(columns_to_sum) : HasColumn(sheet_df, columns_to_sum[i])

\* lines 38-39: the dict appended for a sheet
SumData(sheet_name, sheet_df) ==
    [c \in Range(columns_to_sum) \cup {"Sheet"} |->
        IF c = "Sheet" THEN sheet_name ELSE SeriesSum(Column(sheet_df, c))]

\* a sheet loop body that sums whichever target columns the sheet has
SheetRowsPartial(sheet) ==
    LET present == {c \in Range(columns_to_sum) : HasColumn(sheet.df, c)}
    IN  <<[c \in present \cup {"Sheet"} |->
            IF c = "Sheet" THEN sheet.name ELSE SeriesSum(Column(sheet.df, c))]>>

\* lines 32-40: what one sheet adds to result_df
SheetRows(sheet) ==
    IF ~HasRequiredColumns(sheet.df) THEN << >>
    ELSE <<SumData(sheet.name, sheet.df)>>

SkipNotice(file_name, sheet_name) ==
    "Skipping sheet '" \o sheet_name \o "' in file '" \o file_name
        \o "' because it doesn't have the required columns."

\* line 34: what one sheet prints
SheetNotices(file_name, sheet) ==
    IF ~HasRequiredColumns(sheet.df) THEN <<SkipNotice(file_name, sheet.name)>>
    ELSE << >>

\* lines 30-40: result_df after the sheet loop, rows in sheet order
ResultDf(sheets) == Flatten([i \in 1..Len(sheets) |-> SheetRows(sheets[i])])

AllSheetNotices(file_name, sheets) ==
    Flatten([i \in 1..Len(sheets) |-> SheetNotices(file_name, sheets[i])])

ErrorLine(f) == "Error reading " \o FileName(f) \o ": " \o f.book.error

WrittenLine(f) ==
    "Sum of specified columns from '" \o FileName(f) \o "' written to '"
        \o OutputCsvPath(f) \o "'"

\* to_csv(path): the file at path is created or replaced
WriteFile(dir, path, content) ==
    [p \in DOMAIN dir \cup {path} |-> IF p = path THEN content ELSE dir[p]]

\* line 15
ListExcelFiles ==
    /\ pc = "list_excel"
    /\ err = ""
    /\ excel_files' = SelectSeq(excel_listing, LAMBDA f : EndsWith(f, {".xlsx", ".xls"}))
    /\ pc' = "aggregate"
    /\ idx' = 1
    /\ UNCHANGED <<console, err, excel_listing, output_dir, writes, folder_listing,
                   results, output_csv>>
    /\ UNCHANGED csvVars

\* a read failure that falls through to the write instead of `continue`
ReadFailedFallsThrough(f) ==
    /\ ~f.book.ok
    /\ console' = Append(console, ErrorLine(f))
    /\ output_dir' = WriteFile(output_dir, OutputCsvPath(f), << >>)
    /\ writes' = Append(writes, [src |-> FileName(f), path |-> OutputCsvPath(f),
                                 rows |-> << >>])

\* lines 23-27: pd.read_excel raised
ReadFailed(f) ==
    /\ ~f.book.ok
    /\ console' = Append(console, ErrorLine(f))
    /\ UNCHANGED <<output_dir, writes>>

\* lines 29-47: the file was read
SumAndWrite(f) ==
    /\ f.book.ok
    /\ LET result_df == ResultDf(f.book.sheets)
       IN  /\ output_dir' = WriteFile(output_dir, OutputCsvPath(f), result_df)
           /\ writes' = Append(writes, [src |-> FileName(f), path |-> OutputCsvPath(f),
                                        rows |-> result_df])
    /\ console' = console \o AllSheetNotices(FileName(f), f.book.sheets)
                          \o <<WrittenLine(f)>>

\* lines 18-47: one iteration of the file loop
AggregateFile ==
    /\ pc = "aggregate"
    /\ err = ""
    /\ idx <= Len(excel_files)
    /\ \/ ReadFailed(excel_files[idx])
       \/ SumAndWrite(excel_files[idx])
    /\ idx' = idx + 1
    /\ UNCHANGED <<pc, err, excel_listing, excel_files, folder_listing, results,
                   output_csv>>
    /\ UNCHANGED csvVars

\* line 49
AggregateComplete ==
    /\ pc = "aggregate"
    /\ err = ""
    /\ idx > Len(excel_files)
    /\ console' = Append(console, "Processing complete.")
    /\ pc' = "list_folder"
    /\ UNCHANGED <<idx, err, excel_listing, excel_files, output_dir, writes,
                   folder_listing, results, output_csv>>
    /\ UNCHANGED csvVars

(***************************************************************************)
(* The row-sum / concatenation job (lines 52-82).                          *)
(***************************************************************************)
\* line 70: the list the second job assigns to columns_to_sum
columns_to_sum_rows == <<"Column1", "Column2">>

\* df[col] = values: an existing column is replaced in place, a new one is appended
SetColumn(df, col, values) ==
    IF HasColumn(df, col)
    THEN DataFrame(df.cols, [df.data EXCEPT ![ColumnIndex(df, col)] = values])
    ELSE DataFrame(Append(df.cols, col), Append(df.data, values))

\* df[cols].sum(axis=1): per row, the sum of the non-blank cells of the columns
RowSums(df, cols) ==
    [r \in 1..NRows(df) |->
        Num(SeriesSum([k \in 1..Len(cols) |-> Column(df, cols[k])[r]]))]

\* line 73
WithTotal(df) == SetColumn(df, "Total", RowSums(df, columns_to_sum_rows))

RECURSIVE UnionColumns(_, _)
\* the column labels of the frames, each once, in order of first appearance
UnionColumns(frames, seen) ==
    IF frames = << >> THEN seen
    ELSE UnionColumns(Tail(frames),
                      seen \o SelectSeq(Head(frames).cols,
                                        LAMBDA c : c \notin Range(seen)))

\* pd.concat(frames) of a non-empty list: rows stacked, absent columns blank
Concat(frames) ==
    LET cols == UnionColumns(frames, << >>)
        part(df, c) == IF HasColumn(df, c) THEN Column(df, c)
                       ELSE [r \in 1..NRows(df) |-> Blank]
    IN  DataFrame(cols,
                  [k \in 1..Len(cols) |->
                      Flatten([i \in 1..Len(frames) |-> part(frames[i], cols[k])])])

\* line 58: os.listdir(folder_path) returns the entries of the folder
ListFolder(listing) ==
    /\ pc = "list_folder"
    /\ err = ""
    /\ folder_listing' = listing
    /\ pc' = "concat"
    /\ idx' = 1
    /\ UNCHANGED <<console, err, excel_listing, excel_files, output_dir, writes,
                   results, output_csv>>
    /\ UNCHANGED csvVars

\* an uncaught exception ends the script where it is
Crash(exception) ==
    /\ err' = exception
    /\ UNCHANGED pc

\* lines 59-76 for a file that is not an .xlsx file: nothing happens
ConcatSkip(f) ==
    /\ ~EndsWith(f, {".xlsx"})
    /\ idx' = idx + 1
    /\ UNCHANGED <<pc, err, results>>

\* line 73: df[columns_to_sum] needs every listed column
HasRowColumns(df) ==
    \A k \in 1..Len(columns_to_sum_rows) : HasColumn(df, columns_to_sum_rows[k])

\* line 63 raises on a file that cannot be opened; line 73 raises on the first
\* sheet lacking a listed column, the sheets before it are in results already
ConcatRaise(f) ==
    /\ EndsWith(f, {".xlsx"})
    /\ \/ /\ ~f.book.ok
          /\ Crash(f.book.error)
          /\ UNCHANGED results
       \/ /\ f.book.ok
          /\ \E i \in 1..Len(f.book.sheets) :
                /\ ~HasRowColumns(f.book.sheets[i].df)
                /\ \A j \in 1..(i - 1) : HasRowColumns(f.book.sheets[j].df)
                /\ results' = results \o [j \in 1..(i - 1) |->
                                             WithTotal(f.book.sheets[j].df)]
          /\ Crash("KeyError")
    /\ UNCHANGED idx

\* lines 63-76: every sheet gets its Total column and is appended to results
ConcatAppend(f) ==
    /\ EndsWith(f, {".xlsx"})
    /\ f.book.ok
    /\ \A i \in 1..Len(f.book.sheets) : HasRowColumns(f.book.sheets[i].df)
    /\ results' = results \o [i \in 1..Len(f.book.sheets) |->
                                 WithTotal(f.book.sheets[i].df)]
    /\ idx' = idx + 1
    /\ UNCHANGED <<pc, err>>

\* lines 58-76: one iteration of the file loop
ConcatFile ==
    /\ pc = "concat"
    /\ err = ""
    /\ idx <= Len(folder_listing)
    /\ \/ ConcatSkip(folder_listing[idx])
       \/ ConcatRaise(folder_listing[idx])
       \/ ConcatAppend(folder_listing[idx])
    /\ UNCHANGED <<console, excel_listing, excel_files, output_dir, writes,
                   folder_listing, output_csv>>
    /\ UNCHANGED csvVars

\* line 79 on an empty list: ValueError("No objects to concatenate")
ConcatNothing ==
    /\ pc = "concat"
    /\ err = ""
    /\ idx > Len(folder_listing)
    /\ results = << >>
    /\ Crash("ValueError")
    /\ UNCHANGED <<idx, console, excel_listing, excel_files, output_dir, writes,
                   folder_listing, results, output_csv>>
    /\ UNCHANGED csvVars

\* lines 79-82
ConcatWrite ==
    /\ pc = "concat"
    /\ err = ""
    /\ idx > Len(folder_listing)
    /\ results # << >>
    /\ output_csv' = <<Concat(results)>>
    /\ pc' = "done"
    /\ UNCHANGED <<idx, console, err, excel_listing, excel_files, output_dir, writes,
                   folder_listing, results>>
    /\ UNCHANGED csvVars

(***************************************************************************)
(* The inputs of data_processing_script.py.                                *)
(***************************************************************************)
\* the sheet of the documented scenario: FAR_WEST=[1,2], NORTH=[3,4], WEST=[5,6]
SheetScenario ==
    DataFrame(<<"FAR_WEST", "NORTH", "WEST">>,
              <<<<Num(1), Num(2)>>, <<Num(3), Num(4)>>, <<Num(5), Num(6)>>>>)

\* all target columns, other columns between them, a blank cell, another order
SheetMixed ==
    DataFrame(<<"WEST", "HourEnding", "NORTH", "FAR_WEST">>,
              <<<<Num(7), Blank>>, <<Num(1), Num(2)>>, <<Num(2), Num(2)>>,
                <<Num(4), Num(1)>>>>)

\* all target columns and no rows
SheetNoRows == DataFrame(<<"FAR_WEST", "NORTH", "WEST">>, <<<< >>, << >>, << >>>>)

\* a sheet without WEST
SheetNoWest ==
    DataFrame(<<"FAR_WEST", "NORTH", "COAST">>, <<<<Num(1)>>, <<Num(2)>>, <<Num(4)>>>>)

SheetFrames == {SheetScenario, SheetNoRows, SheetNoWest}

sheet_names == <<"S1", "S2", "S3">>

Unreadable == [ok |-> FALSE, error |-> "File is not a recognized excel file",
               sheets |-> << >>]

Workbook(frames) ==
    [ok |-> TRUE, error |-> "",
     sheets |-> [i \in 1..Len(frames) |-> [name |-> sheet_names[i], df |-> frames[i]]]]

\* the workbooks of one to n sheets, and a file read_excel cannot read
Workbooks(frames, n) ==
    {Workbook(fs) : fs \in SeqsUpTo(frames, n) \ {<< >>}} \cup {Unreadable}

\* load.xls and load.xlsx share the root "load"; readme.txt is no spreadsheet;
\* Unreadable stands for any file on which pd.read_excel raises
ExcelEntries ==
    {[stem |-> "load", ext |-> e, book |-> b] :
        e \in {".xls", ".xlsx"}, b \in Workbooks(SheetFrames, MaxSheets)}
    \cup {[stem |-> "hist", ext |-> ".xlsx", book |-> b] :
            b \in {Workbook(<<SheetMixed, SheetNoWest>>), Unreadable}}
    \cup {[stem |-> "readme", ext |-> ".txt", book |-> Unreadable]}

RECURSIVE Fill(_, _)
\* the listings whose i-th entry is one of the entries named names[i]
Fill(entries, names) ==
    IF names = << >> THEN {<< >>}
    ELSE {<<e>> \o rest : e \in {x \in entries : FileName(x) = Head(names)},
                          rest \in Fill(entries, Tail(names))}

\* a directory lists each name once, in any order
Listings(entries, n) ==
    UNION {Fill(entries, names) :
            names \in {s \in SeqsUpTo({FileName(e) : e \in entries}, n) : Distinct(s)}}

ConcatGood ==
    DataFrame(<<"Column1", "Column2">>, <<<<Num(1), Num(2)>>, <<Num(3), Blank>>>>)

ConcatWithTotal ==
    DataFrame(<<"Column2", "Total", "Column1">>, <<<<Num(1)>>, <<Num(9)>>, <<Num(5)>>>>)

ConcatNoColumn2 == DataFrame(<<"Column1">>, <<<<Num(1)>>>>)

ConcatEntry(stem, ext, book) == [stem |-> stem, ext |-> ext, book |-> book]

\* the folders the second job is run on
ConcatListings ==
    {<< >>,
     <<ConcatEntry("part1", ".xlsx", Workbook(<<ConcatGood, ConcatNoColumn2>>))>>,
     <<ConcatEntry("part1", ".xls", Workbook(<<ConcatGood>>))>>,
     <<ConcatEntry("part1", ".xlsx", Workbook(<<ConcatGood, ConcatWithTotal>>)),
       ConcatEntry("part2", ".xlsx", Workbook(<<ConcatWithTotal>>))>>,
     <<ConcatEntry("part1", ".xlsx", Workbook(<<ConcatGood>>)),
       ConcatEntry("part2", ".xlsx", Unreadable)>>}

EmptyDir == [p \in {} |-> << >>]

EmptyCsv == DataFrame(<< >>, << >>)

InitAgg ==
    /\ pc = "list_excel"
    /\ idx = 1
    /\ console = << >>
    /\ err = ""
    /\ excel_listing \in Listings(ExcelEntries, MaxExcelFiles)
    /\ excel_files = << >>
    /\ output_dir = EmptyDir
    /\ writes = << >>
    /\ folder_listing = << >>
    /\ results = << >>
    /\ output_csv = << >>
    /\ source_file = EmptyCsv
    /\ gv_listing = << >>
    /\ gv = EmptyDir
    /\ tf_listing = << >>
    /\ tf = EmptyDir
    /\ run = 1
    /\ gv_start = EmptyDir
    /\ tf_start = EmptyDir
    /\ gv_renamed = EmptyDir

NextAgg ==
    \/ ListExcelFiles
    \/ AggregateFile
    \/ AggregateComplete
    \/ \E listing \in ConcatListings : ListFolder(listing)
    \/ ConcatFile
    \/ ConcatNothing
    \/ ConcatWrite

\* data_processing_script.py, run once from its first line
SpecAgg == InitAgg /\ [][NextAgg]_vars

(***************************************************************************)
(* test.py: CSV files.  A file is its header line and, per column, the     *)
(* values of its rows; a value is modelled by what it denotes, "" being    *)
(* the empty field that pandas reads as NaN and writes back as empty.      *)
(***************************************************************************)
NaN == ""

Count(counts, col) == IF col \in DOMAIN counts THEN counts[col] ELSE 0

Put(counts, col, n) ==
    [c \in DOMAIN counts \cup {col} |-> IF c = col THEN n ELSE counts[c]]

RECURSIVE Mangle(_, _)
\* the inner loop of pandas' dedup_names: a label seen before gets ".<count>"
Mangle(col, counts) ==
    IF Count(counts, col) > 0
    THEN Mangle(col \o "." \o ToString(Count(counts, col)),
                Put(counts, col, Count(counts, col) + 1))
    ELSE <<col, counts>>

RECURSIVE DedupNames(_, _)
\* read_csv makes the labels of a header unique, left to right: X, X -> X, X.1
DedupNames(names, counts) ==
    IF names = << >> THEN << >>
    ELSE LET m == Mangle(Head(names), counts)
         IN  <<m[1]>> \o DedupNames(Tail(names), Put(m[2], m[1], 1))

\* pd.read_csv raises EmptyDataError on a file without a header line
CanReadCsv(file) == file.cols # << >>

\* pd.read_csv(path) of a file that can be read
ReadCsv(file) == DataFrame(DedupNames(file.cols, EmptyDir), file.data)

\* df.to_csv(path, index=False): the labels as they are, then the rows
ToCsv(df) == DataFrame(df.cols, df.data)

\* a Series assigned to a frame of n rows is aligned on the row index:
\* rows the Series lacks are NaN, rows the frame lacks are dropped
Align(series, n) == [r \in 1..n |-> IF r <= Len(series) THEN series[r] ELSE NaN]

IsCsv(name) == EndsWith(name, {".csv"})

(***************************************************************************)
(* test.py, lines 92-110: the column renamer.                              *)
(***************************************************************************)
folder_path == "Generators_variability"

\* line 96, as (old name, new name) pairs in source order
columns_to_rename ==
    <<<<"TRE_WEST_wind_1", "TRE_WEST_landbasedwind_class1_moderate_1">>,
      <<"TRE_WEST_wind_2", "TRE_WEST_landbasedwind_class1_moderate_2">>,
      <<"TRE_WEST_wind_3", "TRE_WEST_landbasedwind_class1_moderate_3">>,
      <<"TRE_wind_4", "TRE_landbasedwind_class1_moderate_4">>,
      <<"TRE_wind_5", "TRE_landbasedwind_class1_moderate_5">>,
      <<"TRE_wind_6", "TRE_landbasedwind_class1_moderate_6">>,
      <<"TRE_WEST_solar_pv_7", "TRE_WEST_utilitypv_class1_moderate_1">>,
      <<"TRE_WEST_solar_pv_8", "TRE_WEST_utilitypv_class1_moderate_2">>,
      <<"TRE_WEST_solar_pv_9", "TRE_WEST_utilitypv_class1_moderate_3">>,
      <<"TRE_solar_pv_10", "TRE_utilitypv_class1_moderate_4">>,
      <<"TRE_solar_pv_11", "TRE_utilitypv_class1_moderate_5">>>>

\* the new label of one column
RenameLabel(col) ==
    IF \E k \in 1..Len(columns_to_rename) : columns_to_rename[k][1] = col
    THEN columns_to_rename[CHOOSE k \in 1..Len(columns_to_rename) :
                               columns_to_rename[k][1] = col][2]
    ELSE col

\* line 107: df.rename(columns=columns_to_rename, inplace=True)
Rename(df) == DataFrame([k \in 1..Len(df.cols) |-> RenameLabel(df.cols[k])], df.data)

\* lines 100-110 for an entry that is no .csv file
RenameSkip(name) ==
    /\ ~IsCsv(name)
    /\ idx' = idx + 1
    /\ UNCHANGED <<pc, err, gv>>

\* line 104 raises
RenameRaise(name) ==
    /\ IsCsv(name)
    /\ ~CanReadCsv(gv[FileName(name)])
    /\ Crash("EmptyDataError")
    /\ UNCHANGED <<idx, gv>>

\* lines 104-110
RenameWrite(name) ==
    /\ IsCsv(name)
    /\ CanReadCsv(gv[FileName(name)])
    /\ gv' = WriteFile(gv, FileName(name), ToCsv(Rename(ReadCsv(gv[FileName(name)]))))
    /\ idx' = idx + 1
    /\ UNCHANGED <<pc, err>>

\* lines 99-110: one iteration of the renamer's file loop
RenameFile ==
    /\ pc = "rename"
    /\ err = ""
    /\ idx <= Len(gv_listing)
    /\ \/ RenameSkip(gv_listing[idx])
       \/ RenameRaise(gv_listing[idx])
       \/ RenameWrite(gv_listing[idx])
    /\ UNCHANGED <<console, source_file, gv_listing, tf_listing, tf, run,
                   gv_start, tf_start, gv_renamed>>
    /\ UNCHANGED aggVars

\* the renamer's loop is over; line 123 starts the replacer's loop
RenameDone ==
    /\ pc = "rename"
    /\ err = ""
    /\ idx > Len(gv_listing)
    /\ pc' = "replace"
    /\ idx' = 1
    /\ gv_renamed' = gv
    /\ UNCHANGED <<console, err, source_file, gv_listing, gv, tf_listing, tf, run,
                   gv_start, tf_start>>
    /\ UNCHANGED aggVars

(***************************************************************************)
(* test.py, lines 113-139: the column replacer.                            *)
(***************************************************************************)
folder_path1 == "Generators_variability/test_folder"

folder_path2 == "Generators_variability"

\* line 120
columns_to_replace ==
    <<"TRE_WEST_landbasedwind_class1_moderate_1",
      "TRE_WEST_landbasedwind_class1_moderate_2",
      "TRE_WEST_landbasedwind_class1_moderate_3",
      "TRE_landbasedwind_class1_moderate_4",
      "TRE_landbasedwind_class1_moderate_5",
      "TRE_landbasedwind_class1_moderate_6",
      "TRE_WEST_utilitypv_class1_moderate_1",
      "TRE_WEST_utilitypv_class1_moderate_2",
      "TRE_WEST_utilitypv_class1_moderate_3",
      "TRE_utilitypv_class1_moderate_4",
      "TRE_utilitypv_class1_moderate_5">>

\* a replacer that also raises on a listed column the first frame lacks
ReplaceKeyErrorEither(df1, df2) ==
    \E k \in 1..Len(columns_to_replace) :
        \/ ~HasColumn(df2, columns_to_replace[k])
        \/ ~HasColumn(df1, columns_to_replace[k])

\* line 134 raises KeyError when df2[column] does not exist; assigning to a
\* column df1 lacks raises nothing
ReplaceKeyError(df1, df2) ==
    \E k \in 1..Len(columns_to_replace) : ~HasColumn(df2, columns_to_replace[k])

\* a loop that ends after its first column
ReplaceFirstColumnOnly(df1, df2, columns) ==
    IF columns = << >> THEN df1
    ELSE SetColumn(df1, Head(columns), Align(Column(df2, Head(columns)), NRows(df1)))

RECURSIVE ReplaceColumns(_, _, _)
\* lines 133-134: for column in columns: df1[column] = df2[column]
ReplaceColumns(df1, df2, columns) ==
    IF columns = << >> THEN df1
    ELSE ReplaceColumns(
             SetColumn(df1, Head(columns), Align(Column(df2, Head(columns)), NRows(df1))),
             df2, Tail(columns))

\* the exception lines 129-134 raise for a file of folder 1, "" when none
ReplaceError(name) ==
    IF ~CanReadCsv(tf[name]) THEN "EmptyDataError"
    ELSE IF name \notin DOMAIN gv THEN "FileNotFoundError"
    ELSE IF ~CanReadCsv(gv[name]) THEN "EmptyDataError"
    ELSE IF ReplaceKeyError(ReadCsv(tf[name]), ReadCsv(gv[name])) THEN "KeyError"
    ELSE ""

ReplaceSkip(entry) ==
    /\ ~IsCsv(entry)
    /\ idx' = idx + 1
    /\ UNCHANGED <<pc, err, tf>>

\* a failure that leaves the file of folder 1 truncated
ReplaceRaiseTruncates(entry) ==
    /\ IsCsv(entry)
    /\ ReplaceError(FileName(entry)) # ""
    /\ Crash(ReplaceError(FileName(entry)))
    /\ tf' = WriteFile(tf, FileName(entry), EmptyCsv)
    /\ UNCHANGED idx

\* lines 129-134 raise: nothing is written
ReplaceRaise(entry) ==
    /\ IsCsv(entry)
    /\ ReplaceError(FileName(entry)) # ""
    /\ Crash(ReplaceError(FileName(entry)))
    /\ UNCHANGED <<idx, tf>>

\* lines 129-137
ReplaceWrite(entry) ==
    /\ IsCsv(entry)
    /\ ReplaceError(FileName(entry)) = ""
    /\ tf' = WriteFile(tf, FileName(entry),
                       ToCsv(ReplaceColumns(ReadCsv(tf[FileName(entry)]),
                                            ReadCsv(gv[FileName(entry)]),
                                            columns_to_replace)))
    /\ idx' = idx + 1
    /\ UNCHANGED <<pc, err>>

\* lines 123-137: one iteration of the replacer's file loop
ReplaceFile ==
    /\ pc = "replace"
    /\ err = ""
    /\ idx <= Len(tf_listing)
    /\ \/ ReplaceSkip(tf_listing[idx])
       \/ ReplaceRaise(tf_listing[idx])
       \/ ReplaceWrite(tf_listing[idx])
    /\ UNCHANGED <<console, source_file, gv_listing, gv, tf_listing, run,
                   gv_start, tf_start, gv_renamed>>
    /\ UNCHANGED aggVars

\* line 139
ReplaceDone ==
    /\ pc = "replace"
    /\ err = ""
    /\ idx > Len(tf_listing)
    /\ console' = Append(console, "All files processed.")
    /\ pc' = "done"
    /\ UNCHANGED <<idx, err>>
    /\ UNCHANGED csvVars
    /\ UNCHANGED aggVars

\* the analyst starts test.py again on the files the last run left
Rerun ==
    /\ pc = "done" \/ err # ""
    /\ run < MaxRuns
    /\ run' = run + 1
    /\ pc' = "rename"
    /\ idx' = 1
    /\ console' = << >>
    /\ err' = ""
    /\ gv_start' = gv
    /\ tf_start' = tf
    /\ UNCHANGED <<source_file, gv_listing, gv, tf_listing, tf, gv_renamed>>
    /\ UNCHANGED aggVars

(***************************************************************************)
(* The inputs of test.py.                                                  *)
(***************************************************************************)
\* a table whose cells name their origin: file, column position and row
Table(tag, cols, n) ==
    DataFrame(cols, [k \in 1..Len(cols) |->
                        [r \in 1..n |-> tag \o ":" \o ToString(k) \o ":" \o ToString(r)]])

OldNames == [k \in 1..Len(columns_to_rename) |-> columns_to_rename[k][1]]

NewNames == [k \in 1..Len(columns_to_rename) |-> columns_to_rename[k][2]]

CsvEntry(stem) == [stem |-> stem, ext |-> ".csv"]

CsvStems == {"Generators_variability_scenario_1", "Generators_variability_scenario_2"}

\* the sub-directory test_folder is an entry of Generators_variability
TestFolderEntry == [stem |-> "test_folder", ext |-> ""]

\* files of Generators_variability: not yet renamed, renamed, holding an old
\* name next to its new name, lacking the first listed column, shorter, empty
GvFiles(stem) ==
    {Table("gv/" \o stem, <<"Time_Index">> \o OldNames, MaxRows),
     Table("gv/" \o stem, <<"Time_Index">> \o NewNames, MaxRows),
     Table("gv/" \o stem, <<"Time_Index", NewNames[1]>> \o OldNames, MaxRows),
     Table("gv/" \o stem, <<"Time_Index">> \o Tail(OldNames), MaxRows),
     Table("gv/" \o stem, <<"Time_Index">> \o NewNames, 1),
     EmptyCsv}

\* files of test_folder: with every listed column or without the first one
TfFiles(stem) ==
    {Table("tf/" \o stem, <<"Time_Index">> \o cols, n) :
        cols \in {NewNames, Tail(NewNames)}, n \in 1..MaxRows}
    \cup {EmptyCsv}

\* the orders in which a directory of the given stems can be listed
StemOrders(stems) == {s \in SeqsUpTo(stems, Cardinality(stems)) : Distinct(s)}

\* the directories listed as `order`, each file one of files[stem]
Directories(order, files) ==
    {d \in [{FileName(CsvEntry(st)) : st \in Range(order)} -> UNION {files[st] : st \in Range(order)}] :
        \A st \in Range(order) : d[FileName(CsvEntry(st))] \in files[st]}

InitInPlace ==
    /\ pc = "rename"
    /\ idx = 1
    /\ console = << >>
    /\ err = ""
    /\ excel_listing = << >>
    /\ excel_files = << >>
    /\ output_dir = EmptyDir
    /\ writes = << >>
    /\ folder_listing = << >>
    /\ results = << >>
    /\ output_csv = << >>
    /\ source_file = EmptyCsv
    /\ \E order \in StemOrders(CsvStems) :
          /\ gv_listing = <<TestFolderEntry>> \o [i \in 1..Len(order) |-> CsvEntry(order[i])]
          /\ gv \in Directories(order, [st \in CsvStems |-> GvFiles(st)])
    /\ \E order \in StemOrders(CsvStems) :
          /\ tf_listing = [i \in 1..Len(order) |-> CsvEntry(order[i])]
          /\ tf \in Directories(order, [st \in CsvStems |-> TfFiles(st)])
    /\ run = 1
    /\ gv_start = gv
    /\ tf_start = tf
    /\ gv_renamed = gv

NextInPlace ==
    \/ RenameFile
    \/ RenameDone
    \/ ReplaceFile
    \/ ReplaceDone
    \/ Rerun

\* test.py as it stands: the renamer, then the replacer
SpecInPlace == InitInPlace /\ [][NextInPlace]_vars

(***************************************************************************)
(* test.py, lines 29-60: the column-range copier (in the string literal).  *)
(***************************************************************************)
start_col == 1

end_col == 33

\* line 38: source_df.columns[start_col:end_col+1], a slice that stops at the
\* last column when the source has fewer than end_col + 1 columns
ColumnsToCopy(source_df) ==
    SubSeq(source_df.cols, start_col + 1, Min(end_col + 1, Len(source_df.cols)))

\* df.insert(0, col, values): the new column becomes the first one
InsertFirst(df, col, values) == DataFrame(<<col>> \o df.cols, <<values>> \o df.data)

RECURSIVE InsertAll(_, _, _)
\* lines 52-53: for col in columns_to_copy: target_df.insert(0, col, source_df[col])
InsertAll(target_df, source_df, columns) ==
    IF columns = << >> THEN target_df
    ELSE InsertAll(InsertFirst(target_df, Head(columns),
                               Align(Column(source_df, Head(columns)), NRows(target_df))),
                   source_df, Tail(columns))

\* insert raises ValueError when the frame already has a column of that label
InsertRaises(target_df, columns) ==
    \E k \in 1..Len(columns) : HasColumn(target_df, columns[k])

\* line 35
ReadSource ==
    /\ pc = "read_source"
    /\ err = ""
    /\ \/ /\ CanReadCsv(source_file)
          /\ pc' = "copy"
          /\ idx' = 1
          /\ UNCHANGED err
       \/ /\ ~CanReadCsv(source_file)
          /\ Crash("EmptyDataError")
          /\ UNCHANGED idx
    /\ UNCHANGED console
    /\ UNCHANGED csvVars
    /\ UNCHANGED aggVars

CopySkip(entry) ==
    /\ ~IsCsv(entry)
    /\ idx' = idx + 1
    /\ UNCHANGED <<pc, err, gv, console>>

\* the exception lines 49-53 raise for a target file, "" when none
CopyError(name) ==
    IF ~CanReadCsv(gv[name]) THEN "EmptyDataError"
    ELSE IF InsertRaises(ReadCsv(gv[name]), ColumnsToCopy(ReadCsv(source_file)))
         THEN "ValueError"
    ELSE ""

CopyRaise(entry) ==
    /\ IsCsv(entry)
    /\ CopyError(FileName(entry)) # ""
    /\ Crash(CopyError(FileName(entry)))
    /\ UNCHANGED <<idx, gv, console>>

\* lines 46-58
CopyWrite(entry) ==
    /\ IsCsv(entry)
    /\ CopyError(FileName(entry)) = ""
    /\ gv' = WriteFile(gv, FileName(entry),
                       ToCsv(InsertAll(ReadCsv(gv[FileName(entry)]),
                                       ReadCsv(source_file),
                                       ColumnsToCopy(ReadCsv(source_file)))))
    /\ console' = Append(console, "Columns inserted into " \o FileName(entry))
    /\ idx' = idx + 1
    /\ UNCHANGED <<pc, err>>

\* lines 44-58: one iteration of the copier's file loop
CopyFile ==
    /\ pc = "copy"
    /\ err = ""
    /\ idx <= Len(gv_listing)
    /\ \/ CopySkip(gv_listing[idx])
       \/ CopyRaise(gv_listing[idx])
       \/ CopyWrite(gv_listing[idx])
    /\ UNCHANGED <<source_file, gv_listing, tf_listing, tf, run, gv_start, tf_start,
                   gv_renamed>>
    /\ UNCHANGED aggVars

\* line 60
CopyDone ==
    /\ pc = "copy"
    /\ err = ""
    /\ idx > Len(gv_listing)
    /\ console' = Append(console, "All files processed.")
    /\ pc' = "read_reference"
    /\ UNCHANGED <<idx, err>>
    /\ UNCHANGED csvVars
    /\ UNCHANGED aggVars

(***************************************************************************)
(* test.py, lines 62-90: the column reconciliation (in the string literal).*)
(***************************************************************************)
reference_file == "Generators_variability_scenario_1.csv"

\* reference_df of line 69; the reconciliation never writes to its folder
ReferenceDf == ReadCsv(gv[reference_file])

\* line 69
ReadReference ==
    /\ pc = "read_reference"
    /\ err = ""
    /\ \/ /\ reference_file \in DOMAIN gv
          /\ CanReadCsv(gv[reference_file])
          /\ pc' = "reconcile"
          /\ idx' = 1
          /\ UNCHANGED err
       \/ /\ reference_file \notin DOMAIN gv
          /\ Crash("FileNotFoundError")
          /\ UNCHANGED idx
       \/ /\ reference_file \in DOMAIN gv
          /\ ~CanReadCsv(gv[reference_file])
          /\ Crash("EmptyDataError")
          /\ UNCHANGED idx
    /\ UNCHANGED console
    /\ UNCHANGED csvVars
    /\ UNCHANGED aggVars

RECURSIVE AddMissing(_, _, _)
\* lines 80-82: every column of the reference the frame lacks is assigned the
\* reference's values (in the order of the set; line 85 undoes the order)
AddMissing(current_df, reference_df, columns) ==
    IF columns = << >> THEN current_df
    ELSE AddMissing(
             IF HasColumn(current_df, Head(columns)) THEN current_df
             ELSE SetColumn(current_df, Head(columns),
                            Align(Column(reference_df, Head(columns)), NRows(current_df))),
             reference_df, Tail(columns))

\* df[labels]: the columns of those labels, in that order
Select(df, labels) ==
    DataFrame(labels, [k \in 1..Len(labels) |-> Column(df, labels[k])])

\* a reconciliation that adds the missing columns and leaves the order as it is
ReconcileNoReorder(current_df, reference_df) ==
    AddMissing(current_df, reference_df, reference_df.cols)

\* lines 80-85
Reconcile(current_df, reference_df) ==
    Select(AddMissing(current_df, reference_df, reference_df.cols), reference_df.cols)

ReconcileSkip(entry) ==
    /\ ~IsCsv(entry)
    /\ idx' = idx + 1
    /\ UNCHANGED <<pc, err, tf>>

\* line 77 raises
ReconcileRaise(entry) ==
    /\ IsCsv(entry)
    /\ ~CanReadCsv(tf[FileName(entry)])
    /\ Crash("EmptyDataError")
    /\ UNCHANGED <<idx, tf>>

\* lines 74-88
ReconcileWrite(entry) ==
    /\ IsCsv(entry)
    /\ CanReadCsv(tf[FileName(entry)])
    /\ tf' = WriteFile(tf, FileName(entry),
                       ToCsv(Reconcile(ReadCsv(tf[FileName(entry)]), ReferenceDf)))
    /\ idx' = idx + 1
    /\ UNCHANGED <<pc, err>>

\* lines 72-88: one iteration of the reconciliation's file loop
ReconcileFile ==
    /\ pc = "reconcile"
    /\ err = ""
    /\ idx <= Len(tf_listing)
    /\ \/ ReconcileSkip(tf_listing[idx])
       \/ ReconcileRaise(tf_listing[idx])
       \/ ReconcileWrite(tf_listing[idx])
    /\ UNCHANGED <<console, source_file, gv_listing, gv, tf_listing, run,
                   gv_start, tf_start, gv_renamed>>
    /\ UNCHANGED aggVars

\* line 90
ReconcileDone ==
    /\ pc = "reconcile"
    /\ err = ""
    /\ idx > Len(tf_listing)
    /\ console' = Append(console, "All files processed.")
    /\ pc' = "done"
    /\ UNCHANGED <<idx, err>>
    /\ UNCHANGED csvVars
    /\ UNCHANGED aggVars

(***************************************************************************)
(* The inputs of the copier and the reconciliation.                        *)
(***************************************************************************)
SourceFiles ==
    {Table("src", <<"Time_Index", "gen_1", "gen_2">>, MaxRows),
     Table("src", <<"Time_Index", "gen_1">>, MaxRows),
     Table("src", <<"Time_Index">>, MaxRows),
     EmptyCsv}

\* targets of the copier; the second one already has a column named gen_2
CopyTargets(stem) ==
    {Table("gv/" \o stem, <<"Time_Index", "gen_3">>, MaxRows),
     Table("gv/" \o stem, <<"gen_3", "gen_2">>, MaxRows),
     Table("gv/" \o stem, <<"gen_3">>, 1),
     EmptyCsv}

\* targets of the reconciliation: lacking columns, or lacking one, with one
\* more and the others in another order
ReconcileTargets(stem) ==
    {Table("tf/" \o stem, cols, n) :
        cols \in {<<"Time_Index", "gen_3">>,
                  <<"gen_4", "gen_3", "Time_Index", "gen_1">>},
        n \in 1..MaxRows}
    \cup {EmptyCsv}

NoExcel ==
    /\ excel_listing = << >>
    /\ excel_files = << >>
    /\ output_dir = EmptyDir
    /\ writes = << >>
    /\ folder_listing = << >>
    /\ results = << >>
    /\ output_csv = << >>

InitCopy ==
    /\ pc = "read_source"
    /\ idx = 1
    /\ console = << >>
    /\ err = ""
    /\ NoExcel
    /\ source_file \in SourceFiles
    /\ \E order \in StemOrders(CsvStems) :
          /\ gv_listing = <<TestFolderEntry>> \o [i \in 1..Len(order) |-> CsvEntry(order[i])]
          /\ gv \in Directories(order, [st \in CsvStems |-> CopyTargets(st)])
    /\ \E order \in StemOrders(CsvStems) :
          /\ tf_listing = [i \in 1..Len(order) |-> CsvEntry(order[i])]
          /\ tf \in Directories(order, [st \in CsvStems |-> ReconcileTargets(st)])
    /\ run = 1
    /\ gv_start = gv
    /\ tf_start = tf
    /\ gv_renamed = gv

NextCopy ==
    \/ ReadSource
    \/ CopyFile
    \/ CopyDone
    \/ ReadReference
    \/ ReconcileFile
    \/ ReconcileDone

\* the copier followed by the reconciliation, as test.py ran them
SpecCopy == InitCopy /\ [][NextCopy]_vars

(***************************************************************************)
(* Properties of data_processing_script.py.                                *)
(***************************************************************************)
\* the files whose loop iteration has ended
AggProcessed ==
    IF pc = "list_excel" THEN {}
    ELSE IF pc = "aggregate" THEN {excel_files[i] : i \in 1..(idx - 1)}
    ELSE Range(excel_files)

AggLoopOver == pc \notin {"list_excel", "aggregate"}

TargetColumns == {"FAR_WEST", "NORTH", "WEST"}

LacksTargetColumn(sheet) == \E c \in TargetColumns : c \notin Range(sheet.df.cols)

WritesOf(f) == {i \in 1..Len(writes) : writes[i].src = FileName(f)}

\* C1: for every file that was read and every sheet of it that lacks a target
\* column, the skip notice of that sheet is printed and the CSV written for the
\* file has no row for the sheet; every row written holds a sum for every target
\* column, never for only some of them.
C1_SkippedSheetsNeverSummed ==
    /\ \A f \in AggProcessed :
          f.book.ok =>
             \A k \in 1..Len(f.book.sheets) :
                LacksTargetColumn(f.book.sheets[k]) =>
                   /\ SkipNotice(FileName(f), f.book.sheets[k].name) \in Range(console)
                   /\ \A i \in WritesOf(f) :
                         \A r \in 1..Len(writes[i].rows) :
                            writes[i].rows[r].Sheet # f.book.sheets[k].name
    /\ \A i \in 1..Len(writes) :
          \A r \in 1..Len(writes[i].rows) :
             DOMAIN writes[i].rows[r] = TargetColumns \cup {"Sheet"}
    /\ \A p \in DOMAIN output_dir :
          \A r \in 1..Len(output_dir[p]) :
             DOMAIN output_dir[p][r] = TargetColumns \cup {"Sheet"}

\* C1 witness: a workbook with a sheet lacking WEST next to a complete sheet has
\* been read and its CSV, with a row, written.
C1_Witness ==
    \E f \in AggProcessed :
       /\ f.book.ok
       /\ \E k \in 1..Len(f.book.sheets) : LacksTargetColumn(f.book.sheets[k])
       /\ \E i \in WritesOf(f) : Len(writes[i].rows) > 0

\* the rows the aggregator is to write for a workbook: one per sheet that has
\* every target column, in sheet order, with the sheet's name and the sums
ExpectedRow(sheet) ==
    [Sheet |-> sheet.name,
     FAR_WEST |-> SeriesSum(Column(sheet.df, "FAR_WEST")),
     NORTH |-> SeriesSum(Column(sheet.df, "NORTH")),
     WEST |-> SeriesSum(Column(sheet.df, "WEST"))]

ExpectedRows(sheets) ==
    LET kept == SelectSeq(sheets, LAMBDA sh : ~LacksTargetColumn(sh))
    IN  [i \in 1..Len(kept) |-> ExpectedRow(kept[i])]

ReadFiles == {f \in AggProcessed : f.book.ok}

\* C2: when the aggregator has ended, every input file that was read has its
\* own output CSV, holding exactly one row per sheet that has all target
\* columns, in sheet order, with the sheet's name and the column sums; there is
\* one output CSV per file read.
C2_OneCsvPerFileRead ==
    AggLoopOver =>
       /\ \A f \in ReadFiles :
             /\ OutputCsvPath(f) \in DOMAIN output_dir
             /\ output_dir[OutputCsvPath(f)] = ExpectedRows(f.book.sheets)
       /\ Cardinality(DOMAIN output_dir) = Cardinality(ReadFiles)

\* the same, for the to_csv call made for each file rather than for the files
\* left in the output directory
C2_EachWriteHoldsTheSums ==
    /\ \A f \in ReadFiles :
          /\ Cardinality(WritesOf(f)) = 1
          /\ \A i \in WritesOf(f) :
                /\ writes[i].path = OutputCsvPath(f)
                /\ writes[i].rows = ExpectedRows(f.book.sheets)
    /\ Len(writes) = Cardinality(ReadFiles)

\* C3: a file that could not be read has its error line printed and no CSV
\* written for it; the batch goes on: every file that can be read, also after a
\* failed one, has its CSV written, the loop always has a next step, and the
\* job prints 'Processing complete.' before anything else happens.
C3_ReadErrorSkipsFileOnly ==
    /\ \A f \in AggProcessed :
          IF f.book.ok
          THEN /\ WritesOf(f) # {}
               /\ OutputCsvPath(f) \in DOMAIN output_dir
          ELSE /\ ErrorLine(f) \in Range(console)
               /\ WritesOf(f) = {}
    /\ pc = "aggregate" => ENABLED (AggregateFile \/ AggregateComplete)
    /\ AggLoopOver =>
          /\ "Processing complete." \in Range(console)
          /\ AggProcessed = Range(excel_files)

\* C3 witness: the job has completed after an unreadable file was followed by a
\* readable one, whose CSV is written.
C3_Witness ==
    /\ AggLoopOver
    /\ \E i, j \in 1..Len(excel_files) :
          /\ i < j
          /\ ~excel_files[i].book.ok
          /\ excel_files[j].book.ok
          /\ WritesOf(excel_files[j]) # {}
          /\ SplitExtRoot(excel_files[i]) # SplitExtRoot(excel_files[j])

NoXlsxIn(listing) == \A i \in 1..Len(listing) : listing[i].ext # ".xlsx"

\* C9: a job whose input directory has no matching file writes nothing and
\* runs to its end without an error: the aggregator prints its completion line
\* and the concatenation job after it ends normally.
C9_EmptyInputCompletes ==
    /\ (AggLoopOver /\ excel_files = << >>) =>
          /\ writes = << >>
          /\ "Processing complete." \in Range(console)
    /\ (pc \in {"concat", "done"} /\ NoXlsxIn(folder_listing)) =>
          /\ err = ""
          /\ output_csv = << >>

(***************************************************************************)
(* Properties of test.py.                                                  *)
(***************************************************************************)
Listed == Range(columns_to_replace)

\* position of the first label c of a header
PosOf(labels, c) ==
    CHOOSE i \in 1..Len(labels) : labels[i] = c /\ \A j \in 1..(i - 1) : labels[j] # c

RowsOf(file) == IF file.data = << >> THEN 0 ELSE Len(file.data[1])

\* the .csv entries of folder 1 whose iteration in the replacer has ended
ReplacedEntries ==
    IF pc = "replace" THEN {tf_listing[i] : i \in 1..(idx - 1)}
    ELSE IF pc = "done" THEN Range(tf_listing)
    ELSE {}

RenamerLoopEnded == pc = "rename" /\ err = "" /\ idx > Len(gv_listing)

\* C4: running the renamer again leaves every file as the first run left it:
\* the same column names in the same order, the same file.
C4_RenamerIdempotent == (RenamerLoopEnded /\ run >= 2) => gv = gv_renamed

\* the mapping alone, on the labels of every file the renamer has written
RenameLabelsIdempotent ==
    \A n \in DOMAIN gv :
       \A k \in 1..Len(gv[n].cols) :
          /\ RenameLabel(RenameLabel(RenameLabel(gv[n].cols[k])))
                = RenameLabel(RenameLabel(gv[n].cols[k]))
          /\ gv[n].cols[k] \notin Range(OldNames) => RenameLabel(gv[n].cols[k]) = gv[n].cols[k]

\* C6: a file of folder 1 the replacer has processed, whose counterpart in
\* folder 2 has as many rows and which, like the counterpart, has every listed
\* column, holds in each listed column the counterpart's values row for row and
\* in every other column its own old values; the replacer leaves folder 2 alone.
C6_ListedColumnsReplaced ==
    /\ \A e \in ReplacedEntries :
          LET n == FileName(e)
              old == tf_start[n]
          IN  (/\ n \in DOMAIN gv
               /\ RowsOf(old) = RowsOf(gv[n])
               /\ \A c \in Listed : c \in Range(old.cols) /\ c \in Range(gv[n].cols)) =>
                 /\ tf[n].cols = old.cols
                 /\ \A k \in 1..Len(old.cols) :
                       tf[n].data[k] =
                          IF old.cols[k] \in Listed
                          THEN gv[n].data[PosOf(gv[n].cols, old.cols[k])]
                          ELSE old.data[k]
    /\ pc \in {"replace", "done"} => gv = gv_renamed

\* C6 witness: such a pair has been processed and the file of folder 1 changed.
C6_Witness ==
    \E e \in ReplacedEntries :
       LET n == FileName(e)
       IN  /\ n \in DOMAIN gv
           /\ RowsOf(tf_start[n]) = RowsOf(gv[n])
           /\ RowsOf(tf_start[n]) >= 2
           /\ \A c \in Listed : c \in Range(tf_start[n].cols) /\ c \in Range(gv[n].cols)
           /\ tf[n] # tf_start[n]

\* C7 as stated: a pair with a listed column missing from either file is never
\* processed to the end, and the failure writes nothing to the file of folder 1.
C7_MissingInEitherFileRaises ==
    /\ \A e \in ReplacedEntries :
          \A c \in Listed :
             /\ c \in Range(tf_start[FileName(e)].cols)
             /\ c \in Range(gv[FileName(e)].cols)
    /\ (pc = "replace" /\ err # "") =>
          tf[FileName(tf_listing[idx])] = tf_start[FileName(tf_listing[idx])]

\* C7 as amended: the replacer ends with an uncaught KeyError, the file of
\* folder 1 unwritten, exactly when a listed column is missing from the file
\* of folder 2; a listed column missing from the file of folder 1 alone is no
\* error: it is appended to that file with the values of folder 2.
C7_AppendedOrKeyError ==
    /\ \A e \in ReplacedEntries :
          LET n == FileName(e)
              old == tf_start[n]
          IN  /\ \A c \in Listed : c \in Range(gv[n].cols)
              /\ SubSeq(tf[n].cols, 1, Len(old.cols)) = old.cols
              /\ \A c \in Listed :
                    c \notin Range(old.cols) =>
                       /\ c \in Range(tf[n].cols)
                       /\ PosOf(tf[n].cols, c) > Len(old.cols)
                       /\ tf[n].data[PosOf(tf[n].cols, c)]
                             = Align(gv[n].data[PosOf(gv[n].cols, c)], RowsOf(old))
    /\ (pc = "replace" /\ err = "KeyError") =>
          LET n == FileName(tf_listing[idx])
          IN  /\ \E c \in Listed : c \notin Range(gv[n].cols)
              /\ tf[n] = tf_start[n]

\* the replacer is at a pair it can read whose folder-2 file lacks a listed column
AtPairLackingInFolder2 ==
    /\ pc = "replace"
    /\ err = ""
    /\ idx <= Len(tf_listing)
    /\ CanReadCsv(tf[FileName(tf_listing[idx])])
    /\ FileName(tf_listing[idx]) \in DOMAIN gv
    /\ CanReadCsv(gv[FileName(tf_listing[idx])])
    /\ \E c \in Listed : c \notin Range(gv[FileName(tf_listing[idx])].cols)

\* C7 as amended, with the step that fails: from a pair whose folder-2 file
\* lacks a listed column the only step is the KeyError, which writes nothing.
C7_MissingInFolder2Raises ==
    /\ []C7_AppendedOrKeyError
    /\ [][AtPairLackingInFolder2 => (err' = "KeyError" /\ tf' = tf /\ pc' = pc)]_vars

\* C7 witness: the replacer has appended a listed column to a file that lacked
\* it and has then ended with KeyError on a pair whose folder-2 file lacks one.
C7_Witness ==
    /\ pc = "replace"
    /\ err = "KeyError"
    /\ \E e \in ReplacedEntries :
          \E c \in Listed :
             /\ c \notin Range(tf_start[FileName(e)].cols)
             /\ c \in Range(tf[FileName(e)].cols)

\* C10: an uncaught error at the k-th file ends the script there: no step of
\* the script follows and 'All files processed.' is not printed; the files
\* before the k-th hold their transformed contents, the k-th and the later ones
\* the contents they had when the script started.  A file name of folder 1
\* without a counterpart in folder 2 is such an error.
C10_PartialBatch ==
    /\ pc = "replace" => \A i \in 1..(idx - 1) : FileName(tf_listing[i]) \in DOMAIN gv
    /\ err # "" =>
          /\ "All files processed." \notin Range(console)
          /\ pc \in {"rename", "replace"}
          /\ pc = "rename" =>
                /\ tf = tf_start
                /\ \A i \in 1..Len(gv_listing) :
                      LET n == FileName(gv_listing[i])
                      IN  IsCsv(gv_listing[i]) =>
                             gv[n] = IF i < idx
                                     THEN ToCsv(Rename(ReadCsv(gv_start[n])))
                                     ELSE gv_start[n]
          /\ pc = "replace" =>
                /\ gv = gv_renamed
                /\ \A i \in 1..Len(tf_listing) :
                      LET n == FileName(tf_listing[i])
                      IN  IsCsv(tf_listing[i]) =>
                             tf[n] = IF i < idx
                                     THEN ToCsv(ReplaceColumns(ReadCsv(tf_start[n]),
                                                               ReadCsv(gv[n]),
                                                               columns_to_replace))
                                     ELSE tf_start[n]

\* C10, with "stay so": after the error the script takes no further step and the
\* files stay as they are until the script is started again.
C10_FailureLeavesPartialBatch ==
    /\ []C10_PartialBatch
    /\ [][err # "" => (run' = run + 1 /\ gv' = gv /\ tf' = tf)]_vars

\* C10 witness: the replacer has overwritten its first file and has ended on
\* the second, which has no counterpart in folder 2.
C10_Witness ==
    /\ pc = "replace"
    /\ err = "FileNotFoundError"
    /\ idx = 2
    /\ tf[FileName(tf_listing[1])] # tf_start[FileName(tf_listing[1])]
    /\ tf[FileName(tf_listing[2])] = tf_start[FileName(tf_listing[2])]

\* the .csv entries whose iteration in the copier has ended
CopiedEntries ==
    IF pc = "read_source" THEN {}
    ELSE IF pc = "copy" THEN {gv_listing[i] : i \in 1..(idx - 1)}
    ELSE Range(gv_listing)

\* the .csv entries whose iteration in the reconciliation has ended
ReconciledEntries ==
    IF pc = "reconcile" THEN {tf_listing[i] : i \in 1..(idx - 1)}
    ELSE IF pc = "done" THEN Range(tf_listing)
    ELSE {}

\* C5: a target file the reconciliation has processed has exactly the column
\* names of the reference file, in the reference's order; a column the target
\* had keeps the target's values, a column it lacked has the reference's.
C5_TargetHasReferenceColumns ==
    \A e \in ReconciledEntries :
       LET n == FileName(e)
           old == tf_start[n]
           ref == gv[reference_file]
       IN  /\ tf[n].cols = ref.cols
           /\ Len(tf[n].data) = Len(ref.cols)
           /\ \A k \in 1..Len(ref.cols) :
                 tf[n].data[k] =
                    IF ref.cols[k] \in Range(old.cols)
                    THEN old.data[PosOf(old.cols, ref.cols[k])]
                    ELSE Align(ref.data[k], RowsOf(old))

\* C5 witness: a processed target had a column the reference has not, lacked
\* columns of the reference, and had the shared ones in another order.
C5_Witness ==
    \E e \in ReconciledEntries :
       LET old == tf_start[FileName(e)]
           ref == gv[reference_file]
       IN  /\ \E c \in Range(old.cols) : c \notin Range(ref.cols)
           /\ \E c \in Range(ref.cols) : c \notin Range(old.cols)
           /\ \E c, d \in Range(ref.cols) \cap Range(old.cols) :
                 /\ PosOf(ref.cols, c) < PosOf(ref.cols, d)
                 /\ PosOf(old.cols, c) > PosOf(old.cols, d)
           /\ tf[FileName(e)].cols = ref.cols

\* C8: a target file the copier has processed starts with the copied columns
\* in the order they have in the source, followed by its own columns in their
\* order.
C8_SliceInSourceOrder ==
    \A e \in CopiedEntries :
       IsCsv(e) =>
          gv[FileName(e)].cols
             = SubSeq(source_file.cols, start_col + 1,
                      Min(end_col + 1, Len(source_file.cols)))
               \o gv_start[FileName(e)].cols

\* what the copier does write: the copied columns in reverse source order
C8_SliceInReverseOrder ==
    \A e \in CopiedEntries :
       IsCsv(e) =>
          LET slice == SubSeq(source_file.cols, start_col + 1,
                              Min(end_col + 1, Len(source_file.cols)))
          IN  gv[FileName(e)].cols
                 = [k \in 1..Len(slice) |-> slice[Len(slice) + 1 - k]]
                   \o gv_start[FileName(e)].cols
====
